---- MODULE Spec2Model ----
(***************************************************************************)
(* Model of the Freemail mailbox client (src/core/freemail_client.py).    *)
(*                                                                         *)
(* One FreemailClient instance is modelled.  A public entry point is      *)
(* started from the idle state, runs through its HTTP requests one        *)
(* request per step (the transport's answer is the environment's choice), *)
(* and comes back to the idle state with its return value in ret.         *)
(***************************************************************************)
EXTENDS Integers, Sequences, FiniteSets, TLC

(***************************************************************************)
(* Bounds of the model                                                     *)
(***************************************************************************)
MaxTimeout == 3
MaxInterval == 2
MaxEmails == 2
PollMaxEmails == 1
MaxInstant == 1

(***************************************************************************)
(* Values                                                                  *)
(***************************************************************************)
NoneVal == "None"
TrueVal == "True"
FalseVal == "False"

\* Outcome of one HTTP request: a response status, or Exc when the transport
\* raised.  NoStatus: no response yet.
Exc == 0
NoStatus == 0 - 1

\* _parse_email_time returning None; since_time not given.
NoInstant == 0 - 1
\* Raw time of a listing item: no time key at all, or a value that does not
\* parse (otherwise the instant it parses to).
RawAbsent == 0 - 1
RawBad == 0 - 2

\* datetime.min, the sort key of an email without a parseable time (line 248);
\* it is itself a datetime, so it is an element of Instants.
DateMin == 0
Instants == DateMin..MaxInstant

Addresses == {"a1@x", "a2@x"}
Tokens == {"", "tok"}
Statuses == {200, 201, 401, 403, 404, 405, 500}
\* Answers the model lets the server give, per endpoint; Exc: the transport
\* raised.  405 and 500 are read apart from 404 by register_account only.
Outcomes(stage) ==
    IF stage = "generate" THEN Statuses \cup {Exc}
    ELSE {200, 201, 401, 403, 404, Exc}
Domains == {"", "x"}
Timeouts == 0..MaxTimeout
Intervals == 0..MaxInterval
SinceTimes == {NoInstant} \cup Instants

\* Codes the external extractor can find: in the subject, in the listing-level
\* body fields, in the detail body.
SubjectCode == "111"
BodyCode == "222"
DetailCode == "333"

Max(a, b) == IF a >= b THEN a ELSE b

(***************************************************************************)
(* Payloads the server may answer with                                     *)
(***************************************************************************)
\* /api/generate: an empty body, a JSON value that is not an object, or an
\* object with optional email and mailbox fields ("" = absent or empty).
GenerateBodies ==
    [shape : {"dict"}, email : {""} \cup Addresses, mailbox : {""} \cup Addresses]
    \cup {[shape |-> "empty", email |-> "", mailbox |-> ""],
          [shape |-> "other", email |-> "", mailbox |-> ""]}

\* An item of the listing: a JSON object with a raw time (absent, not
\* parseable, or an instant) and an optional id; or an item that is not an
\* object.  The text fields of an item (subject; content, html and preview)
\* are read once, when the item is examined, and are drawn then: each may or
\* may not hold a code.
RawTimes == {RawAbsent, RawBad} \cup Instants
EmailItems == [shape : {"dict"}, time : RawTimes, id : {NoneVal, "id"}]
BadItem == [shape |-> "str", time |-> RawAbsent, id |-> NoneVal]
Subjects == {NoneVal, SubjectCode}
Bodies == {NoneVal, BodyCode}
ListingItems == EmailItems \cup {BadItem}
Listings(max) == UNION {[1..n -> ListingItems] : n \in 0..max}

\* /api/emails: a top-level array, an object wrapping the array under
\* emails/data/items, an object wrapping an object wrapping it, an object whose
\* field is no array (a string), another JSON value, or an empty body.
ListingShapes == {"list", "wrapped", "nested", "notlist", "scalar", "empty"}
ListingPayloads(max) ==
    [shape : {"list"}, emails : Listings(max)]
    \cup [shape : {"wrapped", "nested"}, emails : Listings(1)]
    \cup [shape : {"notlist", "scalar", "empty"}, emails : {<<>>}]

\* /api/email/<id>: an object (possibly wrapped in data) whose content may
\* hold a code, or a JSON value that is not an object.
DetailBodies == {[shape |-> "dict", content |-> NoneVal],
                 [shape |-> "dict", content |-> DetailCode],
                 [shape |-> "other", content |-> NoneVal]}

\* /api/domains
DomainBodies == {"strlist", "dictlist_domain", "dictlist_name", "dictlist_none",
                 "emptylist", "wrapped", "scalar", "empty"}

\* Query parameters are modelled as the set of their keys; a request without a
\* params dict and one with an empty dict both send no query parameter.
NoBody == [shape |-> "none", email |-> "", mailbox |-> ""]
NoCall == [method |-> NoneVal, stage |-> NoneVal, params |-> {}]
NoReq == [method |-> NoneVal, stage |-> NoneVal, params |-> {},
          fallback |-> FALSE, status |-> NoStatus]
NoDecision == [method |-> NoneVal, status |-> NoStatus, body |-> NoBody]

VARIABLES
    jwt_token,      \* self.jwt_token
    email,          \* self.email
    op,             \* the public entry point last started
    pc,             \* "idle", "send", "fallback", "return", "examine",
                    \* "attempt", "sleep", "done"
    ret,            \* return value of the last finished entry point
    raised,         \* the last finished entry point raised to its caller
    email0,         \* self.email when the entry point was started
    call,           \* arguments of the running _request_with_auth_fallback
    nreq,           \* HTTP requests sent by the running/last such call
    res,            \* status of the primary response of that call
    returned,       \* what that call returned: a status, or Exc when
                    \* _request raised (NoStatus: not returned)
    lastReq,        \* the last HTTP request sent, with its answer
    params,         \* register_account: the params dict
    tried,          \* register_account: methods tried
    finals,         \* register_account: per method tried, the status
                    \* returned for it and the requests it took
    decided,        \* register_account: the response the outcome came from
    timeout,        \* poll_for_code arguments
    interval,
    max_retries,    \* poll_for_code locals
    i,
    attempts,       \* calls of fetch_verification_code by this poll
    sleeps,         \* calls of time.sleep by this poll
    code,           \* value returned by the last fetch_verification_code
    since_time,     \* fetch_verification_code argument
    emails,         \* fetch_verification_code: the sorted list
    idx,            \* index of the email being examined
    skipped_no_time_indexes,
    skipped_expired_indexes,
    examined,       \* positions (in listing) passed to the extractor, in order
    detailed        \* positions (in listing) a detail request was sent for

clientVars == <<jwt_token, email>>
opVars == <<op, pc, ret, raised, email0>>
httpVars == <<call, nreq, res, returned, lastReq>>
regVars == <<params, tried, finals, decided>>
pollVars == <<timeout, interval, max_retries, i, attempts, sleeps>>
scanVars == <<emails, idx, skipped_no_time_indexes,
              skipped_expired_indexes, examined, detailed>>
fetchVars == <<code, since_time, scanVars>>
vars == <<clientVars, opVars, httpVars, regVars, pollVars, fetchVars>>

(***************************************************************************)
(* State of the other components of the module.  Each of them is checked  *)
(* under a specification of its own; while one component runs, the others  *)
(* rest in their initial state.                                            *)
(***************************************************************************)
VARIABLES
    raw_time,       \* _parse_email_time: the raw time value of the email
    local_offset,   \* seconds the local timezone is ahead of UTC
    parsed,         \* what _parse_email_time returned
    tp_raised,      \* _parse_email_time raised instead of returning
    tp_pc           \* "ready", "parsed"

timeVars == <<raw_time, local_offset, parsed, tp_raised, tp_pc>>

VARIABLES
    messages,       \* parse_last_message: the content of each message
    images,         \* the attachment list that is returned
    image_urls,     \* URLs queued for download
    tasks,          \* one download_url coroutine per queued URL, with the
                    \* GET requests it sent, the answer and its result slot
    out_of_order,   \* some download finished before one queued ahead of it
    pm_pc           \* "start", "gather", "returned"

msgVars == <<messages, images, image_urls, tasks, out_of_order, pm_pc>>

VARIABLES
    key_messages,       \* get_conversation_key: messages
    client_identifier,  \* get_conversation_key: client_identifier
    key,                \* the key returned for them
    prev_key,           \* the key returned to the request before
    changed,            \* what this request changed against the one before
    key_pc              \* "ready", "keyed"

keyVars == <<key_messages, client_identifier, key, prev_key, changed, key_pc>>

VARIABLES
    ctx_messages,   \* build_full_context_text: messages
    prompt,         \* the text it returned
    ctx_pc          \* "ready", "built"

ctxVars == <<ctx_messages, prompt, ctx_pc>>

\* Everything but the state of the Freemail client.
otherVars == <<timeVars, msgVars, keyVars, ctxVars>>

allVars == <<vars, otherVars>>

(***************************************************************************)
(* _parse_email_time (lines 197-243)                                       *)
(*                                                                         *)
(* Epoch values reach 1e12 and beyond, so a number n is held as the pair   *)
(* [hi, lo] with n = hi * 10^9 + lo and 0 <= lo < 10^9.  An instant is the *)
(* naive local datetime the function returns: the seconds on the local    *)
(* wall clock since 1970-01-01T00:00:00, again as a pair, and the          *)
(* milliseconds of the second.                                             *)
(***************************************************************************)
Giga == 1000 * 1000 * 1000
Big(h, l) == [hi |-> h, lo |-> l]
BigGt(a, b) == a.hi > b.hi \/ (a.hi = b.hi /\ a.lo > b.lo)

\* a + d for an integer d of less than 10^9 in magnitude.
BigAdd(a, d) ==
    LET l == a.lo + d
    IN  IF l >= Giga THEN Big(a.hi + 1, l - Giga)
        ELSE IF l < 0 THEN Big(a.hi - 1, l + Giga)
        ELSE Big(a.hi, l)

\* timestamp / 1000.0 (lines 219, 229): the whole seconds and the milliseconds
\* left over, which the float keeps as the fraction of the second.
BigDiv1000(a) == Big(a.hi \div 1000, (a.hi % 1000) * 1000000 + a.lo \div 1000)
BigMod1000(a) == a.lo % 1000

\* 1e12 (lines 218, 228).
MsThreshold == Big(1000, 0)

\* datetime.max, 9999-12-31T23:59:59, in seconds since 1970: what
\* datetime.fromtimestamp and astimezone can still represent.
DatetimeMax == Big(253, 402300799)
\* 0001-01-01T00:00:00 in seconds since 1970 (-62135596800).
DatetimeMin == Big(0 - 63, 864403200)

\* Bounds of the inputs: milliseconds tried on top of each anchor value, and
\* the hours the local timezone and an ISO offset may be off UTC.
MaxFrac == 1
MaxTzHours == 1

\* Raw numbers: around 0, the epoch of the spec's example (1700000000 s and
\* 1700000000000 ms), the 1e12 threshold and the last representable second.
Nums ==
    {Big(h, l + f) : h \in {0, 1, 253, 999, 1000, 1700, 253402, 1000000},
                     l \in {0, 700000000, 402300799, 999999000},
                     f \in 0..MaxFrac}

LocalOffsets == {h * 3600 : h \in (0 - MaxTzHours)..MaxTzHours}

\* An ISO string without timezone, with Z, or with an offset (in seconds).
NoOffset == 0 - 1
IsoWalls == {Big(1, 700000000), Big(0, 0), DatetimeMax}

\* The raw time value of an email:
\*   none        no time key, or null
\*   int, float  a JSON number (whole-valued)
\*   bool        true or false, which isinstance(_, (int, float)) accepts
\*   nonfinite   NaN or Infinity, which json accepts
\*   blank       a string that is empty after strip()
\*   digits      a string of decimal digits, possibly padded with blanks
\*   otherdigit  a string isdigit() accepts and float() rejects, such as
\*               a superscript two
\*   iso         a string datetime.fromisoformat accepts
\*   text        any other string
\*   other       a JSON array or object
RawValue(k, n, z, o) == [kind |-> k, num |-> n, zone |-> z, off |-> o]
RawValues ==
    {RawValue(k, Big(0, 0), "none", NoOffset) :
        k \in {"none", "nonfinite", "blank", "otherdigit", "text", "other"}}
    \cup {RawValue(k, n, "none", NoOffset) : k \in {"int", "float", "digits"}, n \in Nums}
    \cup {RawValue("bool", Big(0, b), "none", NoOffset) : b \in {0, 1}}
    \cup {RawValue("iso", w, "naive", NoOffset) : w \in IsoWalls}
    \cup {RawValue("iso", w, "Z", 0) : w \in IsoWalls}
    \cup {RawValue("iso", w, "offset", o) : w \in IsoWalls, o \in LocalOffsets}

\* Results: None, or an instant.
NoParse == [ok |-> FALSE, sec |-> Big(0, 0), ms |-> 0]
InstantOf(w, f) == [ok |-> TRUE, sec |-> w, ms |-> f]
Returned(v) == [raised |-> FALSE, value |-> v]
Thrown == [raised |-> TRUE, value |-> NoParse]

InDatetimeRange(w) == ~BigGt(w, DatetimeMax) /\ ~BigGt(DatetimeMin, w)

\* datetime.fromtimestamp(ts).astimezone().replace(tzinfo=None), lines 220
\* and 230: the local wall clock of ts; it raises for a timestamp past the
\* last representable year, in UTC or on the local clock.
FromTimestamp(ts, frac, offset) ==
    IF InDatetimeRange(ts) /\ InDatetimeRange(BigAdd(ts, offset))
    THEN Returned(InstantOf(BigAdd(ts, offset), frac))
    ELSE Thrown

\* lines 218 and 228.
IsMillis_Mut(v) == ~BigGt(MsThreshold, v)

IsMillis(v) == BigGt(v, MsThreshold)

\* lines 217-220 and 227-230.
EpochToLocal(v, offset) ==
    IF IsMillis(v)
    THEN FromTimestamp(BigDiv1000(v), BigMod1000(v), offset)
    ELSE FromTimestamp(v, 0, offset)

\* lines 235-241: the string's own offset is taken off (a string without
\* timezone is given UTC, line 239), then the local offset is put on; any
\* error is caught and gives None.
IsoToLocal_Mut(raw, offset) ==
    LET own == IF raw.zone = "offset" THEN raw.off
               ELSE IF raw.zone = "naive" THEN offset ELSE 0
        utc == BigAdd(raw.num, 0 - own)
    IN  IF InDatetimeRange(utc) /\ InDatetimeRange(BigAdd(utc, offset))
        THEN Returned(InstantOf(BigAdd(utc, offset), 0))
        ELSE Returned(NoParse)

IsoToLocal(raw, offset) ==
    LET own == IF raw.zone = "offset" THEN raw.off ELSE 0
        utc == BigAdd(raw.num, 0 - own)
    IN  IF InDatetimeRange(utc) /\ InDatetimeRange(BigAdd(utc, offset))
        THEN Returned(InstantOf(BigAdd(utc, offset), 0))
        ELSE Returned(NoParse)

\* _parse_email_time on the raw value found under the first time key.
ParseRawTime(raw, offset) ==
    CASE raw.kind = "none" -> Returned(NoParse)
      [] raw.kind \in {"int", "float", "bool"} -> EpochToLocal(raw.num, offset)
      [] raw.kind = "nonfinite" -> Thrown
      [] raw.kind = "blank" -> Returned(NoParse)
      [] raw.kind = "digits" -> EpochToLocal(raw.num, offset)
      [] raw.kind = "otherdigit" -> Thrown
      [] raw.kind = "iso" -> IsoToLocal(raw, offset)
      [] raw.kind = "text" -> Returned(NoParse)
      [] OTHER -> Returned(NoParse)

\* The parser is not running.
TimeAtRest ==
    /\ raw_time = RawValue("none", Big(0, 0), "none", NoOffset)
    /\ local_offset = 0
    /\ parsed = NoParse /\ tp_raised = FALSE /\ tp_pc = "ready"

(***************************************************************************)
(* parse_last_message (src/core/message.py, lines 100-180): attachments    *)
(***************************************************************************)
\* Bound: parts in the content of the last message.
MaxParts == 3

\* A URL as the pattern and the prefix test read it: for "data:" the text is
\* scheme + mime + ";base64," + rest, otherwise scheme + rest.
Url(s, m, r) == [scheme |-> s, mime |-> m, rest |-> r]

\* A content part: text, image_url with its URL, or another type.
Part(t, u) == [type |-> t, url |-> u]
Parts ==
    {Part("text", Url("", "", "")), Part("audio", Url("", "", ""))}
    \cup {Part("image_url", u) :
                u \in {Url("data:", "image/png", "QUJD"), Url("data:", "", "QUJD"),
                       Url("http://", "", "a"), Url("https://", "", "b"),
                       Url("ftp://", "", "c")}}

\* The content of a message: a string, or a list of parts.
StrContent == [shape |-> "str", parts |-> <<>>]
ListContents(max) ==
    {[shape |-> "list", parts |-> q] : q \in UNION {[1..n -> Parts] : n \in 0..max}}
\* The messages of a request: none, or the last one, alone or behind an
\* earlier message that holds a remote image.
EarlierContent ==
    [shape |-> "list", parts |-> <<Part("image_url", Url("http://", "", "a"))>>]
MessageLists ==
    {<<>>}
    \cup {<<c>> : c \in {StrContent} \cup ListContents(MaxParts)}
    \cup {<<EarlierContent, c>> : c \in {StrContent} \cup ListContents(MaxParts)}

\* What the server answers to a GET: a status, the content-type header cut
\* at its semicolons (<<>>: no such header) and the body; status Exc: the
\* transport raised.
Answer(st, ct, b) == [status |-> st, ctype |-> ct, body |-> b]
NoAnswer == Answer(NoStatus, <<>>, "")
Answers ==
    {Answer(200, <<"image/png", " charset=binary">>, "ABC"),
     Answer(200, <<>>, ""),
     Answer(404, <<>>, ""), Answer(500, <<>>, ""), Answer(Exc, <<>>, "")}

\* base64.b64encode(resp.content).decode(), line 160.
B64Encode(body) == CASE body = "ABC" -> "QUJD" [] body = "" -> ""

\* A result slot: None, an attachment, an exception, or not yet written.
Slot(k, m, d) == [kind |-> k, mime |-> m, data |-> d]
NoneSlot == Slot("none", "", "")
UnsetSlot == Slot("unset", "", "")

\* line 123: re.match(r"data:([^;]+);base64,(.+)", url).
DataUriMatch(u) == u.scheme = "data:" /\ u.mime # "" /\ u.rest # ""

\* line 126: url.startswith(("http://", "https://")).
IsRemote_Mut(u) == u.scheme \in {"http://", "https://", "ftp://"}

IsRemote(u) == u.scheme \in {"http://", "https://"}

\* lines 116-129: the inline attachments and the queue of a content.
InlineImages(c) ==
    LET q == SelectSeq(c.parts, LAMBDA x : x.type = "image_url" /\ DataUriMatch(x.url))
    IN  [k \in 1..Len(q) |-> Slot("att", q[k].url.mime, q[k].url.rest)]

QueuedUrls(c) ==
    LET q == SelectSeq(c.parts, LAMBDA x : /\ x.type = "image_url"
                                          /\ ~DataUriMatch(x.url)
                                          /\ IsRemote(x.url))
    IN  [k \in 1..Len(q) |-> q[k].url]

\* line 158: the declared type up to the first semicolon.
ContentType(ct) == IF ct = <<>> THEN "application/octet-stream" ELSE Head(ct)

\* download_url, lines 151-169.
DownloadUrl_Mut(a) ==
    IF a.status = 404 THEN NoneSlot
    ELSE IF a.status # 200 THEN Slot("exc", "", "")
    ELSE Slot("att", ContentType(a.ctype), B64Encode(a.body))

DownloadUrl(a) ==
    IF a.status = Exc THEN NoneSlot
    ELSE IF a.status = 404 THEN NoneSlot
    ELSE IF ~(a.status >= 200 /\ a.status < 300) THEN NoneSlot
    ELSE Slot("att", ContentType(a.ctype), B64Encode(a.body))

\* asyncio.gather, line 171: returns when every coroutine has finished.
AllDone_Mut(ts) == \E k \in 1..Len(ts) : ts[k].st = "done"

AllDone(ts) == \A k \in 1..Len(ts) : ts[k].st = "done"

\* lines 172-178: exceptions and None are left out.
KeepResult_Mut(r) == r.kind # "exc"

KeepResult(r) == r.kind = "att"

\* parse_last_message is not running.
MsgAtRest ==
    /\ messages = <<>> /\ images = <<>> /\ image_urls = <<>> /\ tasks = <<>>
    /\ out_of_order = FALSE /\ pm_pc = "start"

(***************************************************************************)
(* get_conversation_key (src/core/message.py, lines 21-77)                 *)
(*                                                                         *)
(* A string is the sequence of its characters, so that strip, lower, join  *)
(* and the f-strings are computed character by character.                  *)
(***************************************************************************)
\* Bound: messages in a request.
MaxMessages == 4

\* str.lower() and str.strip() over the characters in use.
Lower(str) == [k \in 1..Len(str) |-> IF str[k] = "H" THEN "h" ELSE str[k]]

RECURSIVE Strip(_)
Strip(str) ==
    IF str = <<>> THEN <<>>
    ELSE IF Head(str) = " " THEN Strip(Tail(str))
    ELSE IF str[Len(str)] = " " THEN Strip(SubSeq(str, 1, Len(str) - 1))
    ELSE str

\* sep.join(strs).
RECURSIVE Join(_, _)
Join(strs, sep) ==
    IF strs = <<>> THEN <<>>
    ELSE IF Len(strs) = 1 THEN strs[1]
    ELSE strs[1] \o sep \o Join(Tail(strs), sep)

\* Message contents: a string, or a list of text and image_url parts.
TextPart(t) == [type |-> "text", text |-> t]
ImagePart == [type |-> "image_url", text |-> <<>>]
StrOf(t) == [shape |-> "str", text |-> t, parts |-> <<>>]
ListOf(q) == [shape |-> "list", text |-> <<>>, parts |-> q]
\* Among the texts are the empty one and one made of the separators of the
\* pre-image, "|u:".
KeyContents ==
    {StrOf(<<" ", "H", "i", " ">>),
     ListOf(<<TextPart(<<"h">>), ImagePart, TextPart(<<"i", " ">>)>>),
     StrOf(<<"y", "o">>),
     StrOf(<<>>),
     StrOf(<<"|", "u", ":">>)}
KeyMessages ==
    [role : {<<"u">>}, content : KeyContents]
    \cup [role : {<<"s">>},
          content : {StrOf(<<" ", "H", "i", " ">>), StrOf(<<"y", "o">>)}]
\* The messages tried behind the third one.
LaterMessages == [role : {<<"u">>, <<"s">>}, content : {StrOf(<<"y", "o">>)}]
KeyMessageLists(max) ==
    UNION {[1..n -> KeyMessages] : n \in 0..2}
    \cup {h \o t : h \in [1..3 -> KeyMessages],
                   t \in UNION {[1..n -> LaterMessages] : n \in 0..(max - 3)}}
ClientIds == {<<>>, <<"c", "1">>, <<"c", "2">>}

\* extract_text_from_content, lines 64-77.
ExtractTextFromContent(content) ==
    IF content.shape = "str" THEN content.text
    ELSE IF content.shape = "none" THEN <<>>
    ELSE LET q == SelectSeq(content.parts, LAMBDA x : x.type = "text")
         IN  Join([k \in 1..Len(q) |-> q[k].text], <<>>)

\* line 39: messages[:3].
FirstMessages_Mut(ms) == SubSeq(ms, 1, IF Len(ms) < 4 THEN Len(ms) ELSE 4)

FirstMessages(ms) == SubSeq(ms, 1, IF Len(ms) < 3 THEN Len(ms) ELSE 3)

\* lines 40-54: f"{role}:{text}" of one message.
MessageFingerprint(msg) ==
    msg.role \o <<":">> \o Lower(Strip(ExtractTextFromContent(msg.content)))

\* lines 34-61.  hashlib.md5 is taken to be injective: the digest is the
\* string that is hashed, marked as hashed.
GetConversationKey(ms, cid) ==
    IF ms = <<>>
    THEN [hashed |-> FALSE,
          text |-> IF cid # <<>> THEN cid \o <<":", "empty">> ELSE <<"empty">>]
    ELSE LET fps == [k \in 1..Len(FirstMessages(ms)) |->
                        MessageFingerprint(FirstMessages(ms)[k])]
         IN  [hashed |-> TRUE,
              text |-> IF cid # <<>> THEN cid \o <<"|">> \o Join(fps, <<"|">>)
                       ELSE Join(fps, <<"|">>)]

NoKey == [hashed |-> FALSE, text |-> <<>>]

\* get_conversation_key is not running.
KeyAtRest ==
    /\ key_messages = <<>> /\ client_identifier = <<>>
    /\ key = NoKey /\ prev_key = NoKey /\ changed = "none" /\ key_pc = "ready"

(***************************************************************************)
(* build_full_context_text (src/core/message.py, lines 80-97 and 183-220)  *)
(***************************************************************************)
\* Bound: messages in the history.
MaxHistory == 2

\* Messages: role, name, content (a string, a list of parts, or None) and,
\* for an assistant, tool_calls or function_call.  A call is its name and
\* its arguments string.
CtxContents ==
    {StrOf(<<"4", "2">>), [shape |-> "none", text |-> <<>>, parts |-> <<>>],
     ListOf(<<TextPart(<<"h", "i">>), ImagePart, ImagePart>>),
     ListOf(<<ImagePart>>)}
CtxMessage(r, n, c, tc, fc) ==
    [role |-> r, name |-> n, content |-> c, tool_calls |-> tc, function_call |-> fc]
CtxMessages ==
    {CtxMessage(r, "", c, <<>>, "") :
        r \in {"system", "USER", "developer", ""}, c \in CtxContents}
    \cup {CtxMessage("tool", n, c, <<>>, "") : n \in {"", "search"}, c \in CtxContents}
    \cup {CtxMessage("Assistant", "", c, tc, fc) :
            c \in CtxContents, tc \in {<<>>, <<"f">>, <<"f", "g">>}, fc \in {"", "k"}}
Histories(max) == UNION {[1..n -> CtxMessages] : n \in 0..max}

\* (msg.role or "").lower(), line 187.
RoleLower(r) ==
    CASE r = "USER" -> "user" [] r = "Assistant" -> "assistant" [] OTHER -> r

\* lines 188-198.
RoleLabel_Mut(msg) ==
    CASE RoleLower(msg.role) = "system" -> <<"System">>
      [] RoleLower(msg.role) = "user" -> <<"User">>
      [] RoleLower(msg.role) = "tool" -> <<"Tool[", "tool", "]">>
      [] RoleLower(msg.role) = "assistant" -> <<"Assistant">>
      [] OTHER -> IF msg.role # "" THEN <<msg.role>> ELSE <<"Assistant">>

RoleLabel(msg) ==
    CASE RoleLower(msg.role) = "system" -> <<"System">>
      [] RoleLower(msg.role) = "user" -> <<"User">>
      [] RoleLower(msg.role) = "tool" ->
            <<"Tool[", IF msg.name # "" THEN msg.name ELSE "tool", "]">>
      [] RoleLower(msg.role) = "assistant" -> <<"Assistant">>
      [] OTHER -> IF msg.role # "" THEN <<msg.role>> ELSE <<"Assistant">>

\* format_tool_calls_text, lines 80-97: "name: arguments" per call, one per
\* line.
FormatToolCallsText(calls) ==
    Join([k \in 1..Len(calls) |-> <<calls[k], ": ", "{}">>], <<"\n">>)

\* lines 213-217: "[图片]" * image_count.
ImageMarkers(content) ==
    LET q == SelectSeq(content.parts, LAMBDA x : x.type = "image_url")
    IN  [k \in 1..Len(q) |-> "[image]"]

\* lines 200-217: content_str of one message.
ContentStr(msg) ==
    LET text == ExtractTextFromContent(msg.content)
        lead == IF text # <<>> THEN text \o <<"\n">> ELSE <<>>
        noted == IF RoleLower(msg.role) # "assistant" THEN text
                 ELSE IF msg.tool_calls # <<>>
                 THEN lead \o <<"Tool calls:\n">> \o FormatToolCallsText(msg.tool_calls)
                 ELSE IF msg.function_call # ""
                 THEN lead \o <<"Function call: ", msg.function_call, "(", "{}", ")">>
                 ELSE text
    IN  noted \o ImageMarkers(msg.content)

\* lines 185-220.
RECURSIVE BuildFullContextText(_)
BuildFullContextText(ms) ==
    IF ms = <<>> THEN <<>>
    ELSE BuildFullContextText(SubSeq(ms, 1, Len(ms) - 1))
         \o RoleLabel(ms[Len(ms)]) \o <<": ">> \o ContentStr(ms[Len(ms)]) \o <<"\n\n">>

\* build_full_context_text is not running.
CtxAtRest == ctx_messages = <<>> /\ prompt = <<>> /\ ctx_pc = "ready"

OthersAtRest == TimeAtRest /\ MsgAtRest /\ KeyAtRest /\ CtxAtRest


(***************************************************************************)
(* Pure helpers                                                            *)
(***************************************************************************)
\* `if not self.email` (line 150), `if code` (line 354): Python truthiness.
Falsy(v) == v \in {NoneVal, ""}

\* _clone_request_kwargs: a new dict with the same keys, dict values copied.
CloneRequestKwargs(kwargs) == [k \in DOMAIN kwargs |-> kwargs[k]]

\* use_admin_token_query as passed by _request_with_auth_fallback (lines 89
\* and 96).
UseAdminTokenQuery_Mut(phase) == TRUE

UseAdminTokenQuery(phase) == phase = "fallback"

\* _request, lines 47-56, seen from the caller: what the dict the caller
\* passed as params holds afterwards.  _clone_request_kwargs copied it and
\* line 55 copies it again before admin_token is set, so it is not written.
CallerParams(p, use_admin_token_query) == p

\* _request, lines 47-60: the params of the request that is sent.  The dict
\* is copied before admin_token is added, the caller's dict is not written.
RequestParams(kwargs, use_admin_token_query) ==
    IF jwt_token # "" /\ use_admin_token_query
    THEN kwargs.params \cup {"admin_token"}
    ELSE kwargs.params

\* _request_with_auth_fallback, line 91.
NeedsFallback_Mut(status) == status \in {401, 403}

NeedsFallback(status) == status \in {401, 403} /\ jwt_token # ""

\* register_account, line 115: go on to the next method.
RetryNextMethod_Mut(status) == status = 404

RetryNextMethod(status) == status \in {404, 405}

\* register_account, line 125.
ExtractAddress_Mut(body) == IF body.mailbox # "" THEN body.mailbox ELSE body.email

ExtractAddress(body) == IF body.email # "" THEN body.email ELSE body.mailbox

\* register_account, lines 122-138 (a body that is no object makes data.get
\* raise, which line 140 turns into False).
RegisterAccepts(status, body) ==
    /\ status \in {200, 201}
    /\ body.shape = "dict"
    /\ ExtractAddress(body) # ""

\* register_account, lines 126-127: self.email after the decision.
EmailAfterRegister_Mut(status, body, cur) ==
    IF RegisterAccepts(status, body) THEN ExtractAddress(body) ELSE NoneVal

EmailAfterRegister(status, body, cur) ==
    IF RegisterAccepts(status, body) THEN ExtractAddress(body) ELSE cur

\* poll_for_code, line 348.  interval = 0 raises ZeroDivisionError there.
MaxRetries(t, iv) == Max(1, t \div iv)

\* poll_for_code, line 354.
PollGotCode_Mut(v) == FALSE

PollGotCode(v) == ~Falsy(v)

\* poll_for_code, line 358.
MoreAttempts_Mut(k, n) == k <= n

MoreAttempts(k, n) == k < n

\* fetch_verification_code, line 326.
CodeFound(v) == ~Falsy(v)

\* _parse_email_time, lines 197-243, on the raw time of a listing item.
ParseEmailTime(e) == IF e.time >= DateMin THEN e.time ELSE NoInstant

\* line 248: the sort key.
SortKey(e) == IF ParseEmailTime(e) # NoInstant THEN ParseEmailTime(e) ELSE DateMin

\* list.sort(key, reverse=True): descending by key, equal keys keep their
\* order.  Insert x behind every element whose key is >= its own.
RECURSIVE InsertDesc(_, _)
InsertDesc(s, x) ==
    IF s = <<>> THEN <<x>>
    ELSE IF SortKey(Head(s)) >= SortKey(x)
         THEN <<Head(s)>> \o InsertDesc(Tail(s), x)
         ELSE <<x>> \o s

RECURSIVE SortDesc(_)
SortDesc(s) ==
    IF s = <<>> THEN <<>>
    ELSE InsertDesc(SortDesc(SubSeq(s, 1, Len(s) - 1)), s[Len(s)])

\* lines 246-249: sorted only when some email has a time.
SortNewestFirst(s) ==
    IF \E k \in 1..Len(s) : ParseEmailTime(s[k]) # NoInstant THEN SortDesc(s) ELSE s

\* The listing items tagged with their position in the listing as received.
WithPos(l) ==
    [k \in 1..Len(l) |->
        [pos |-> k, time |-> l[k].time, id |-> l[k].id]]

\* lines 174-190: the email list of a listing payload.
NormalizeListing(payload) ==
    CASE payload.shape \in {"list", "wrapped", "nested"} ->
            [ok |-> TRUE, emails |-> payload.emails]
      [] payload.shape = "notlist" -> [ok |-> FALSE, emails |-> <<>>]
      [] OTHER -> [ok |-> TRUE, emails |-> <<>>]

\* line 282.
Expired_Mut(t, since) == t <= since

Expired(t, since) == t < since

\* extract_verification_code on subject + " " + content + " " + html: the
\* code of the first part that holds one.
RECURSIVE ExtractVerificationCode(_)
ExtractVerificationCode(parts) ==
    IF parts = <<>> THEN NoneVal
    ELSE IF Head(parts) # NoneVal THEN Head(parts)
         ELSE ExtractVerificationCode(Tail(parts))

\* lines 275-288: the loop over the sorted emails from index k on, up to the
\* next email that is examined (with a detail request when it has an id), or
\* the end of the list.
RECURSIVE Scan(_, _, _, _, _)
Scan(es, k, since, noT, exp) ==
    IF k > Len(es)
    THEN [outcome |-> "exhausted", idx |-> k, noT |-> noT, exp |-> exp]
    ELSE LET t == ParseEmailTime(es[k])
         IN  IF since # NoInstant /\ t = NoInstant
             THEN Scan(es, k + 1, since, Append(noT, k), exp)
             ELSE IF since # NoInstant /\ Expired(t, since)
             THEN Scan(es, k + 1, since, noT, Append(exp, k))
             ELSE IF ~Falsy(es[k].id)
             THEN [outcome |-> "detail", idx |-> k, noT |-> noT, exp |-> exp]
             ELSE [outcome |-> "examine", idx |-> k, noT |-> noT, exp |-> exp]

\* _get_domain, lines 372-389.
FirstDomain(status, body) ==
    IF status = 200 /\ body \in {"strlist", "dictlist_domain", "dictlist_name"}
    THEN "x" ELSE ""

(***************************************************************************)
(* Initial state: a freshly constructed client                             *)
(***************************************************************************)
ClientInit ==
    /\ jwt_token \in Tokens
    /\ email = NoneVal
    /\ op = "none" /\ pc = "idle" /\ ret = NoneVal /\ raised = FALSE
    /\ email0 = NoneVal
    /\ call = NoCall /\ nreq = 0 /\ res = NoStatus /\ returned = NoStatus
    /\ lastReq = NoReq
    /\ params = {} /\ tried = <<>> /\ finals = <<>> /\ decided = NoDecision
    /\ timeout = 0 /\ interval = 0 /\ max_retries = 0 /\ i = 0
    /\ attempts = 0 /\ sleeps = 0
    /\ code = NoneVal /\ since_time = NoInstant
    /\ emails = <<>> /\ idx = 0
    /\ skipped_no_time_indexes = <<>> /\ skipped_expired_indexes = <<>>
    /\ examined = <<>> /\ detailed = <<>>

Init == ClientInit /\ OthersAtRest

\* The client is not running (while another component is checked).
ClientAtRest == ClientInit /\ jwt_token = ""

(***************************************************************************)
(* Returning from an entry point                                           *)
(***************************************************************************)
\* The entry point has returned v; its locals are still on view in the state.
Finish(v) == pc' = "done" /\ ret' = v /\ raised' = FALSE

Raise == pc' = "done" /\ ret' = NoneVal /\ raised' = TRUE

ResetReg == params' = {} /\ tried' = <<>> /\ finals' = <<>> /\ decided' = NoDecision

ResetPoll ==
    /\ timeout' = 0 /\ interval' = 0 /\ max_retries' = 0 /\ i' = 0
    /\ attempts' = 0 /\ sleeps' = 0

ResetScan ==
    /\ emails' = <<>> /\ idx' = 0
    /\ skipped_no_time_indexes' = <<>> /\ skipped_expired_indexes' = <<>>
    /\ examined' = <<>> /\ detailed' = <<>>

ResetHttp ==
    /\ nreq' = 0 /\ res' = NoStatus /\ returned' = NoStatus /\ lastReq' = NoReq

\* fetch_verification_code returns v: to its caller when called directly, to
\* the loop of poll_for_code (lines 353-363) otherwise.
FetchReturn(v) ==
    /\ code' = v
    /\ call' = NoCall
    /\ IF op = "fetch" THEN Finish(v)
       ELSE IF PollGotCode(v) THEN Finish(v)
       ELSE IF MoreAttempts(i, max_retries)
            THEN pc' = "sleep" /\ UNCHANGED <<ret, raised>>
            ELSE Finish(NoneVal)

\* The state of the loop after Scan stopped with r.
ApplyScan(r) ==
    /\ idx' = r.idx
    /\ skipped_no_time_indexes' = r.noT
    /\ skipped_expired_indexes' = r.exp
    /\ CASE r.outcome = "detail" ->
                /\ call' = [method |-> "GET", stage |-> "detail", params |-> {}]
                /\ pc' = "send"
                /\ UNCHANGED <<code, ret, raised>>
         [] r.outcome = "examine" ->
                /\ call' = NoCall
                /\ pc' = "examine"
                /\ UNCHANGED <<code, ret, raised>>
         [] r.outcome = "exhausted" -> FetchReturn(NoneVal)

\* fetch_verification_code returns v without moving on in the list.
StopScan(v) ==
    /\ FetchReturn(v)
    /\ UNCHANGED <<idx, skipped_no_time_indexes, skipped_expired_indexes,
                   examined>>

(***************************************************************************)
(* Entry points                                                            *)
(***************************************************************************)
\* The caller has the result; the locals of the finished call are gone, the
\* client is ready for the next call.
Leave ==
    /\ UNCHANGED otherVars
    /\ pc = "done"
    /\ pc' = "idle"
    /\ call' = NoCall /\ ResetHttp /\ ResetReg /\ ResetPoll /\ ResetScan
    /\ code' = NoneVal /\ since_time' = NoInstant
    /\ UNCHANGED <<clientVars, op, ret, raised, email0>>

\* set_credentials, lines 31-33.
SetCredentials ==
    /\ UNCHANGED otherVars
    /\ pc = "idle"
    /\ \E e \in Addresses \cup {""} : email' = e
    /\ op' = "set_credentials" /\ email0' = email
    /\ Finish(NoneVal)
    /\ call' = NoCall /\ ResetHttp /\ ResetReg /\ ResetPoll /\ ResetScan
    /\ code' = NoneVal /\ since_time' = NoInstant
    /\ UNCHANGED jwt_token

\* register_account, lines 98-114: build params, the first method is GET.
RegisterStart ==
    /\ UNCHANGED otherVars
    /\ pc = "idle"
    /\ \E domain \in Domains :
        /\ params' = (IF Falsy(domain) THEN {} ELSE {"domain"})
        /\ call' = [method |-> "GET", stage |-> "generate",
                    params |-> (IF Falsy(domain) THEN {} ELSE {"domain"})]
    /\ op' = "register" /\ email0' = email
    /\ tried' = <<"GET">> /\ finals' = <<>> /\ decided' = NoDecision
    /\ pc' = "send" /\ ret' = NoneVal /\ raised' = FALSE
    /\ ResetHttp /\ ResetPoll /\ ResetScan
    /\ code' = NoneVal /\ since_time' = NoInstant
    /\ UNCHANGED clientVars

\* fetch_verification_code, lines 148-164, called directly: without an
\* address it returns None and sends nothing.
FetchStart ==
    /\ UNCHANGED otherVars
    /\ pc = "idle"
    /\ \E since \in SinceTimes : since_time' = since
    /\ op' = "fetch" /\ email0' = email
    /\ IF Falsy(email)
       THEN Finish(NoneVal) /\ call' = NoCall
       ELSE /\ call' = [method |-> "GET", stage |-> "emails", params |-> {"mailbox"}]
            /\ pc' = "send" /\ ret' = NoneVal /\ raised' = FALSE
    /\ code' = NoneVal
    /\ ResetHttp /\ ResetReg /\ ResetPoll /\ ResetScan
    /\ UNCHANGED clientVars

\* poll_for_code, lines 341-349.
PollStart ==
    /\ UNCHANGED otherVars
    /\ pc = "idle"
    /\ \E t \in Timeouts, iv \in Intervals, since \in SinceTimes :
        /\ timeout' = t /\ interval' = iv /\ since_time' = since
        /\ IF iv = 0
           THEN Raise /\ max_retries' = 0 /\ i' = 0
           ELSE /\ max_retries' = MaxRetries(t, iv)
                /\ i' = 1
                /\ pc' = "attempt" /\ ret' = NoneVal /\ raised' = FALSE
    /\ op' = "poll" /\ email0' = email
    /\ attempts' = 0 /\ sleeps' = 0
    /\ code' = NoneVal
    /\ call' = NoCall /\ ResetHttp /\ ResetReg /\ ResetScan
    /\ UNCHANGED clientVars

\* poll_for_code, line 353: the i-th call of fetch_verification_code
\* (lines 148-164 of it).
PollAttempt ==
    /\ UNCHANGED otherVars
    /\ pc = "attempt"
    /\ attempts' = attempts + 1
    /\ IF Falsy(email)
       THEN FetchReturn(NoneVal)
       ELSE /\ call' = [method |-> "GET", stage |-> "emails", params |-> {"mailbox"}]
            /\ pc' = "send"
            /\ code' = NoneVal
            /\ UNCHANGED <<ret, raised>>
    /\ ResetScan
    /\ UNCHANGED <<clientVars, op, email0, nreq, res, returned, lastReq, regVars,
                   timeout, interval, max_retries, i, sleeps, since_time>>

\* poll_for_code, lines 358-360, and the next round of the loop.
PollSleep ==
    /\ UNCHANGED otherVars
    /\ pc = "sleep"
    /\ sleeps' = sleeps + 1
    /\ i' = i + 1
    /\ pc' = "attempt"
    /\ UNCHANGED <<clientVars, op, ret, raised, email0, httpVars, regVars,
                   timeout, interval, max_retries, attempts, fetchVars>>

\* _get_domain, lines 365-371.
DomainsStart ==
    /\ UNCHANGED otherVars
    /\ pc = "idle"
    /\ op' = "domains" /\ email0' = email
    /\ call' = [method |-> "GET", stage |-> "domains", params |-> {}]
    /\ pc' = "send" /\ ret' = NoneVal /\ raised' = FALSE
    /\ ResetHttp /\ ResetReg /\ ResetPoll /\ ResetScan
    /\ code' = NoneVal /\ since_time' = NoInstant
    /\ UNCHANGED clientVars

(***************************************************************************)
(* _request_with_auth_fallback                                             *)
(***************************************************************************)
\* _request, lines 45-85: the request that goes out in the given phase, with
\* the answer it gets.
Request(phase, out) ==
    [method |-> call.method, stage |-> call.stage,
     params |-> RequestParams(CloneRequestKwargs([params |-> call.params]),
                              UseAdminTokenQuery(phase)),
     fallback |-> (phase = "fallback"), status |-> out]

\* lines 88-92: the primary request; its response is returned unless it is
\* 401/403 with a token configured.  An exception of _request goes up.
SendPrimary ==
    /\ UNCHANGED otherVars
    /\ pc = "send"
    /\ \E out \in Outcomes(call.stage) :
        /\ lastReq' = Request("primary", out)
        /\ nreq' = 1
        /\ res' = out
        /\ IF out # Exc /\ NeedsFallback(out)
           THEN returned' = NoStatus /\ pc' = "fallback"
           ELSE returned' = out /\ pc' = "return"
    /\ detailed' = IF call.stage = "detail"
                   THEN Append(detailed, emails[idx].pos) ELSE detailed
    /\ call' = [call EXCEPT !.params =
                    CallerParams(call.params, UseAdminTokenQuery("primary"))]
    /\ params' = IF call.stage = "generate"
                 THEN CallerParams(params, UseAdminTokenQuery("primary"))
                 ELSE params
    /\ UNCHANGED <<clientVars, op, ret, raised, email0, tried, finals, decided,
                   pollVars, code, since_time, emails, idx,
                   skipped_no_time_indexes, skipped_expired_indexes, examined>>

\* lines 94-96: the retry with admin_token in the query; whatever it answers
\* is returned.
SendFallback ==
    /\ UNCHANGED otherVars
    /\ pc = "fallback"
    /\ \E out \in Outcomes(call.stage) :
        /\ lastReq' = Request("fallback", out)
        /\ nreq' = nreq + 1
        /\ returned' = out
    /\ pc' = "return"
    /\ call' = [call EXCEPT !.params =
                    CallerParams(call.params, UseAdminTokenQuery("fallback"))]
    /\ params' = IF call.stage = "generate"
                 THEN CallerParams(params, UseAdminTokenQuery("fallback"))
                 ELSE params
    /\ UNCHANGED <<clientVars, op, ret, raised, email0, res, tried, finals,
                   decided, pollVars, fetchVars>>

(***************************************************************************)
(* What each caller does with the response of its authenticated request    *)
(***************************************************************************)
\* register_account, line 109: the method tried after m, if any.
NextMethod(m) == IF m = "GET" THEN "POST" ELSE NoneVal

\* register_account, lines 115-138.
RegisterOnResponse(status) ==
    IF RetryNextMethod(status) /\ NextMethod(call.method) # NoneVal
    THEN /\ tried' = Append(tried, NextMethod(call.method))
         /\ finals' = Append(finals, [status |-> status, nreq |-> nreq])
         /\ call' = [method |-> NextMethod(call.method), stage |-> "generate",
                     params |-> params]
         /\ pc' = "send"
         /\ UNCHANGED <<ret, raised, email, params, decided>>
    ELSE \E body \in (IF status \in {200, 201} THEN GenerateBodies ELSE {NoBody}) :
         /\ decided' = [method |-> call.method, status |-> status, body |-> body]
         /\ finals' = Append(finals, [status |-> status, nreq |-> nreq])
         /\ email' = EmailAfterRegister(status, body, email)
         /\ Finish(IF RegisterAccepts(status, body) THEN TrueVal ELSE FalseVal)
         /\ call' = NoCall
         /\ UNCHANGED <<params, tried>>

\* register_account, lines 140-142.
RegisterOnException ==
    /\ decided' = [method |-> call.method, status |-> Exc, body |-> NoBody]
    /\ Finish(FalseVal)
    /\ call' = NoCall
    /\ UNCHANGED <<params, tried, finals, email>>

\* fetch_verification_code, lines 166-249 and the loop up to its first stop.
ListingOnResponse(status) ==
    /\ examined' = examined
    /\ IF status # 200
       THEN StopScan(NoneVal) /\ UNCHANGED emails
       ELSE \E payload \in ListingPayloads(IF op = "poll" THEN PollMaxEmails
                                                             ELSE MaxEmails) :
            LET n == NormalizeListing(payload)
            IN  IF ~n.ok \/ Len(n.emails) = 0
                THEN FetchReturn(NoneVal)
                     /\ UNCHANGED <<emails, idx, skipped_no_time_indexes,
                                    skipped_expired_indexes>>
                ELSE IF \E k \in 1..Len(n.emails) : n.emails[k].shape # "dict"
                THEN FetchReturn(NoneVal)
                     /\ UNCHANGED <<emails, idx, skipped_no_time_indexes,
                                    skipped_expired_indexes>>
                ELSE /\ emails' = SortNewestFirst(WithPos(n.emails))
                     /\ ApplyScan(Scan(SortNewestFirst(WithPos(n.emails)), 1,
                                       since_time, <<>>, <<>>))

\* fetch_verification_code, lines 323-331 for the email at idx, then on to the
\* next one.
Examine(subject, content) ==
    /\ examined' = Append(examined, emails[idx].pos)
    /\ IF CodeFound(ExtractVerificationCode(<<subject, content>>))
       THEN /\ FetchReturn(ExtractVerificationCode(<<subject, content>>))
            /\ UNCHANGED <<idx, skipped_no_time_indexes, skipped_expired_indexes>>
       ELSE ApplyScan(Scan(emails, idx + 1, since_time, skipped_no_time_indexes,
                           skipped_expired_indexes))

\* fetch_verification_code, lines 294-315: content from the detail response,
\* or from the listing item when the status is not 200.
DetailOnResponse(status) ==
    /\ IF status = 200
       THEN \E d \in DetailBodies, subject \in Subjects :
            IF d.shape # "dict"
            THEN FetchReturn(NoneVal)
                 /\ UNCHANGED <<idx, skipped_no_time_indexes,
                                skipped_expired_indexes, examined>>
            ELSE Examine(subject, d.content)
       ELSE \E subject \in Subjects, body \in Bodies : Examine(subject, body)
    /\ UNCHANGED emails

\* fetch_verification_code, lines 337-339.
FetchOnException ==
    /\ FetchReturn(NoneVal)
    /\ UNCHANGED <<emails, idx, skipped_no_time_indexes, skipped_expired_indexes,
                   examined>>

\* _get_domain, lines 372-389.
DomainsOnResponse(status) ==
    /\ \E body \in DomainBodies : Finish(FirstDomain(status, body))
    /\ call' = NoCall

Deliver(status) ==
    CASE call.stage = "generate" ->
            /\ RegisterOnResponse(status)
            /\ UNCHANGED <<code, emails, idx, skipped_no_time_indexes,
                           skipped_expired_indexes, examined>>
      [] call.stage = "emails" ->
            /\ ListingOnResponse(status)
            /\ UNCHANGED <<email, regVars>>
      [] call.stage = "detail" ->
            /\ DetailOnResponse(status)
            /\ UNCHANGED <<email, regVars>>
      [] call.stage = "domains" ->
            /\ DomainsOnResponse(status)
            /\ UNCHANGED <<email, regVars, code, emails, idx,
                           skipped_no_time_indexes, skipped_expired_indexes,
                           examined>>

\* The exception _request re-raises (line 85) reaches the except clause of
\* the entry point.
OnException ==
    CASE call.stage = "generate" ->
            /\ RegisterOnException
            /\ UNCHANGED <<code, emails, idx, skipped_no_time_indexes,
                           skipped_expired_indexes, examined>>
      [] call.stage \in {"emails", "detail"} ->
            /\ FetchOnException
            /\ UNCHANGED <<email, regVars>>
      [] call.stage = "domains" ->
            /\ Finish("")
            /\ call' = NoCall
            /\ UNCHANGED <<email, regVars, code, emails, idx,
                           skipped_no_time_indexes, skipped_expired_indexes,
                           examined>>

\* _request_with_auth_fallback has returned (or raised) into its caller.
Continue ==
    /\ UNCHANGED otherVars
    /\ pc = "return"
    /\ IF returned = Exc THEN OnException ELSE Deliver(returned)
    /\ ResetHttp
    /\ UNCHANGED <<jwt_token, op, email0, pollVars, since_time, detailed>>

\* fetch_verification_code, lines 316-331: an email without id is examined on
\* its listing-level fields.
ExamineListing ==
    /\ UNCHANGED otherVars
    /\ pc = "examine"
    /\ \E subject \in Subjects, body \in Bodies : Examine(subject, body)
    /\ UNCHANGED <<clientVars, op, email0, nreq, res, returned, lastReq, regVars,
                   pollVars, since_time, emails, detailed>>

Next ==
    \/ Leave
    \/ SetCredentials
    \/ RegisterStart
    \/ FetchStart
    \/ PollStart
    \/ DomainsStart
    \/ PollAttempt
    \/ PollSleep
    \/ SendPrimary
    \/ SendFallback
    \/ Continue
    \/ ExamineListing

Spec == Init /\ [][Next]_allVars

(***************************************************************************)
(* _parse_email_time as a component of its own: every raw value, under     *)
(* every local timezone offset                                             *)
(***************************************************************************)
notTimeVars == <<vars, msgVars, keyVars, ctxVars>>

TimeInit ==
    /\ ClientAtRest /\ MsgAtRest /\ KeyAtRest /\ CtxAtRest
    /\ raw_time \in RawValues
    /\ local_offset \in LocalOffsets
    /\ parsed = NoParse /\ tp_raised = FALSE /\ tp_pc = "ready"

\* One call of _parse_email_time (line 246 or 278).
ParseTime ==
    /\ tp_pc = "ready"
    /\ parsed' = ParseRawTime(raw_time, local_offset).value
    /\ tp_raised' = ParseRawTime(raw_time, local_offset).raised
    /\ tp_pc' = "parsed"
    /\ UNCHANGED <<raw_time, local_offset, notTimeVars>>

\* The next email of a listing, with its raw time.
NextRawTime ==
    /\ tp_pc = "parsed"
    /\ raw_time' \in RawValues
    /\ parsed' = NoParse /\ tp_raised' = FALSE /\ tp_pc' = "ready"
    /\ UNCHANGED <<local_offset, notTimeVars>>

TimeNext == ParseTime \/ NextRawTime

SpecTime == TimeInit /\ [][TimeNext]_allVars

(***************************************************************************)
(* parse_last_message: the downloads of one call run concurrently          *)
(***************************************************************************)
notMsgVars == <<vars, timeVars, keyVars, ctxVars>>

MsgInit ==
    /\ ClientAtRest /\ TimeAtRest /\ KeyAtRest /\ CtxAtRest
    /\ messages \in MessageLists
    /\ images = <<>> /\ image_urls = <<>> /\ tasks = <<>>
    /\ out_of_order = FALSE /\ pm_pc = "start"

\* lines 102-129 and 150-171: the content of the last message is split, and
\* one coroutine per queued URL is handed to gather.
ParseContent ==
    /\ pm_pc = "start"
    /\ IF messages = <<>>
       THEN images' = <<>> /\ image_urls' = <<>> /\ tasks' = <<>>
            /\ pm_pc' = "returned"
       ELSE LET c == messages[Len(messages)]
            IN  /\ images' = InlineImages(c)
                /\ image_urls' = QueuedUrls(c)
                /\ tasks' = [k \in 1..Len(QueuedUrls(c)) |->
                                [st |-> "pending", sent |-> 0,
                                 answer |-> NoAnswer, result |-> UnsetSlot]]
                /\ pm_pc' = IF QueuedUrls(c) = <<>> THEN "returned" ELSE "gather"
    /\ UNCHANGED <<messages, out_of_order, notMsgVars>>

\* line 153: a coroutine sends its GET.
StartDownload ==
    /\ \E k \in 1..Len(tasks) :
        /\ tasks[k].st = "pending"
        /\ tasks' = [tasks EXCEPT ![k].st = "running", ![k].sent = @ + 1]
    /\ UNCHANGED <<messages, images, image_urls, out_of_order, pm_pc, notMsgVars>>

\* lines 153-169: the answer arrives and the coroutine returns its result.
FinishDownload ==
    /\ \E k \in 1..Len(tasks), a \in Answers :
        /\ tasks[k].st = "running"
        /\ tasks' = [tasks EXCEPT ![k].st = "done", ![k].answer = a,
                                  ![k].result = DownloadUrl(a)]
        /\ out_of_order' = (out_of_order \/ \E j \in 1..(k - 1) : tasks[j].st # "done")
    /\ UNCHANGED <<messages, images, image_urls, pm_pc, notMsgVars>>

\* lines 171-180: gather returns the slots in the order of the URLs; the
\* attachments among them are appended.
Gathered ==
    /\ pm_pc = "gather"
    /\ AllDone(tasks)
    /\ images' = images \o SelectSeq([k \in 1..Len(tasks) |-> tasks[k].result],
                                     KeepResult)
    /\ pm_pc' = "returned"
    /\ UNCHANGED <<messages, image_urls, tasks, out_of_order, notMsgVars>>

MsgNext == ParseContent \/ StartDownload \/ FinishDownload \/ Gathered

SpecMsg == MsgInit /\ [][MsgNext]_allVars

(***************************************************************************)
(* get_conversation_key over the requests of a client                      *)
(***************************************************************************)
notKeyVars == <<vars, timeVars, msgVars, ctxVars>>

KeyInit ==
    /\ ClientAtRest /\ TimeAtRest /\ MsgAtRest /\ CtxAtRest
    /\ key_messages \in KeyMessageLists(MaxMessages)
    /\ client_identifier \in ClientIds
    /\ key = NoKey /\ prev_key = NoKey /\ changed = "none" /\ key_pc = "ready"

\* The key of the first request.
FirstRequest ==
    /\ key_pc = "ready"
    /\ key' = GetConversationKey(key_messages, client_identifier)
    /\ key_pc' = "keyed"
    /\ UNCHANGED <<key_messages, client_identifier, prev_key, changed, notKeyVars>>

\* The message lists that differ from ms in a message behind the third one
\* only: one such message replaced, appended or dropped.
LaterChanges(ms) ==
    {Append(ms, x) : x \in (IF Len(ms) >= 3 /\ Len(ms) < MaxMessages
                            THEN LaterMessages ELSE {})}
    \cup {SubSeq(ms, 1, Len(ms) - 1) : x \in (IF Len(ms) >= 4 THEN {0} ELSE {})}
    \cup ({[ms EXCEPT ![k] = x] : k \in 4..Len(ms), x \in LaterMessages} \ {ms})

\* The message lists that hold the messages of ms with the first three (or
\* fewer, if ms is shorter) in another order, such that the sequence of
\* roles and normalised texts, which is what the key reads of the messages
\* (lines 40-51), is another one.
Reorderings(ms) ==
    LET RoleAndText(msg) ==
            <<msg.role, Lower(Strip(ExtractTextFromContent(msg.content)))>>
        n == IF Len(ms) < 3 THEN Len(ms) ELSE 3
        perms == {p \in [1..n -> 1..n] : \A a, b \in 1..n : p[a] = p[b] => a = b}
        moved(p) == [k \in 1..Len(ms) |-> IF k <= n THEN ms[p[k]] ELSE ms[k]]
    IN  {moved(p) : p \in {q \in perms :
            \E k \in 1..n : RoleAndText(ms[q[k]]) # RoleAndText(ms[k])}}

\* The key of a further request: the same input again, another client with
\* the same messages, or the same client with a change behind the third
\* message, with the first three messages in another order, with fewer of
\* the first three messages, or with more of them.
NextRequest ==
    /\ key_pc = "keyed"
    /\ \/ /\ changed' = "nothing"
          /\ UNCHANGED <<key_messages, client_identifier>>
       \/ /\ changed' = "client"
          /\ client_identifier' \in ClientIds \ {client_identifier}
          /\ UNCHANGED key_messages
       \/ /\ changed' = "later"
          /\ key_messages' \in LaterChanges(key_messages)
          /\ UNCHANGED client_identifier
       \/ /\ changed' = "order"
          /\ key_messages' \in Reorderings(key_messages)
          /\ UNCHANGED client_identifier
       \/ /\ changed' = "fewer"
          /\ \E k \in 0..2 :
                /\ k < Len(key_messages)
                /\ key_messages' = SubSeq(key_messages, 1, k)
          /\ UNCHANGED client_identifier
       \/ /\ changed' = "more"
          /\ Len(key_messages) < 3
          /\ \E x \in KeyMessages : key_messages' = Append(key_messages, x)
          /\ UNCHANGED client_identifier
    /\ prev_key' = key
    /\ key' = GetConversationKey(key_messages', client_identifier')
    /\ UNCHANGED <<key_pc, notKeyVars>>

KeyNext == FirstRequest \/ NextRequest

SpecKey == KeyInit /\ [][KeyNext]_allVars

(***************************************************************************)
(* build_full_context_text over a growing history                          *)
(***************************************************************************)
notCtxVars == <<vars, timeVars, msgVars, keyVars>>

CtxInit ==
    /\ ClientAtRest /\ TimeAtRest /\ MsgAtRest /\ KeyAtRest
    /\ ctx_messages \in Histories(MaxHistory)
    /\ prompt = <<>> /\ ctx_pc = "ready"

\* One call of build_full_context_text.
BuildContext ==
    /\ ctx_pc = "ready"
    /\ prompt' = BuildFullContextText(ctx_messages)
    /\ ctx_pc' = "built"
    /\ UNCHANGED <<ctx_messages, notCtxVars>>

\* The next request brings one more message.
AppendMessage ==
    /\ ctx_pc = "built" /\ Len(ctx_messages) < MaxHistory
    /\ \E msg \in CtxMessages : ctx_messages' = Append(ctx_messages, msg)
    /\ ctx_pc' = "ready"
    /\ UNCHANGED <<prompt, notCtxVars>>

CtxNext == BuildContext \/ AppendMessage

SpecCtx == CtxInit /\ [][CtxNext]_allVars

(***************************************************************************)
(* Properties                                                              *)
(***************************************************************************)
InSeq(x, q) == \E k \in 1..Len(q) : q[k] = x

\* The parsed time of the email that stood at position p of the listing.
TimeAtPos(p) ==
    ParseEmailTime(emails[CHOOSE k \in 1..Len(emails) : emails[k].pos = p])

\* C1: a poll in which no attempt yields a code makes exactly
\* max(1, timeout div interval) calls of fetch_verification_code, sleeps once
\* between consecutive attempts and not after the last one, and returns None.
C1_PollExhausted ==
    (op = "poll" /\ pc # "idle" /\ ~raised) =>
        /\ attempts <= (IF timeout \div interval >= 1 THEN timeout \div interval ELSE 1)
        /\ sleeps = (IF pc = "attempt" THEN attempts ELSE attempts - 1)
        /\ (pc = "done" /\ Falsy(ret)) =>
                /\ ret = NoneVal
                /\ attempts = (IF timeout \div interval >= 1
                               THEN timeout \div interval ELSE 1)
                /\ sleeps = attempts - 1

C1_Witness ==
    /\ op = "poll" /\ pc = "done" /\ ~raised /\ ret = NoneVal
    /\ ~Falsy(email)
    /\ timeout = 3 /\ interval = 1 /\ attempts = 3 /\ sleeps = 2

\* C2: a poll returns at the first attempt whose fetch yields a code, with
\* that code: nothing is fetched, requested or slept after it, and a first
\* success at attempt k means k attempts and k - 1 sleeps.
C2_ReturnsOnFirstCode ==
    (op = "poll" /\ ~Falsy(code)) =>
        /\ pc = "done" /\ ~raised
        /\ ret = code
        /\ i <= max_retries
        /\ attempts = i
        /\ sleeps = i - 1

C2_Witness ==
    /\ op = "poll" /\ pc = "done" /\ ~Falsy(code) /\ ret = code
    /\ attempts = 2 /\ sleeps = 1 /\ max_retries = 3

\* C3: one call of _request_with_auth_fallback sends at most two requests;
\* the second one only after a 401/403 primary response and with a token
\* configured; what the second one answers is returned, with no further retry.
C3_AtMostOneFallback ==
    /\ nreq <= 2
    /\ pc = "fallback" =>
            /\ nreq = 1 /\ ~lastReq.fallback
            /\ lastReq.status \in {401, 403} /\ jwt_token # ""
    /\ lastReq.fallback =>
            /\ nreq = 2 /\ res \in {401, 403} /\ jwt_token # ""
            /\ pc = "return"
            /\ returned = lastReq.status
    /\ nreq = 2 => lastReq.fallback

C3_Witness ==
    /\ lastReq.fallback /\ lastReq.status \in {401, 403}
    /\ pc = "return" /\ returned = lastReq.status /\ nreq = 2

\* C4: only the fallback request that follows a 401/403 primary response
\* carries admin_token; every primary request goes without it, and the params
\* dict of the caller never gets it.
C4_AdminTokenOnlyInFallback ==
    /\ "admin_token" \in lastReq.params =>
            /\ lastReq.fallback /\ nreq = 2
            /\ res \in {401, 403}
    /\ "admin_token" \notin call.params
    /\ "admin_token" \notin params
    /\ ~lastReq.fallback => "admin_token" \notin lastReq.params

\* The POST primary request of register, sent after the GET fell back.
C4_Witness ==
    /\ op = "register" /\ Len(finals) = 1 /\ finals[1].nreq = 2
    /\ lastReq.method = "POST" /\ ~lastReq.fallback
    /\ lastReq.params = {"domain"}

\* C5: register tries GET, then POST exactly when the response returned for
\* GET is 404 or 405; no method twice; the outcome comes from the response of
\* the last method tried.
C5_GetThenPost ==
    (op = "register" /\ pc # "idle") =>
        /\ tried \in {<<"GET">>, <<"GET", "POST">>}
        /\ Len(finals) <= Len(tried)
        /\ Len(tried) = 2 <=> (Len(finals) >= 1 /\ finals[1].status \in {404, 405})
        /\ pc = "done" =>
                /\ decided.method = tried[Len(tried)]
                /\ decided.status # Exc =>
                        /\ Len(finals) = Len(tried)
                        /\ decided.status = finals[Len(finals)].status

C5_Witness ==
    /\ op = "register" /\ pc = "done"
    /\ tried = <<"GET", "POST">> /\ Len(finals) = 2
    /\ finals[1].status = 405 /\ finals[2].status = 201
    /\ ret = TrueVal

\* C6: register returns True exactly when the deciding response is 200/201
\* with a non-empty email or mailbox field, and then self.email is that value
\* (email first); otherwise it returns False and self.email is as before.
C6_RegisterOutcome ==
    (op = "register" /\ pc = "done") =>
        LET b == decided.body
            ok == /\ decided.status \in {200, 201}
                  /\ b.shape = "dict"
                  /\ (b.email # "" \/ b.mailbox # "")
        IN  /\ ~raised
            /\ ret \in {TrueVal, FalseVal}
            /\ ret = TrueVal <=> ok
            /\ ret = TrueVal => email = (IF b.email # "" THEN b.email ELSE b.mailbox)
            /\ ret = FalseVal => email = email0

C6_Witness ==
    /\ op = "register" /\ pc = "done" /\ ret = TrueVal
    /\ decided.status = 201
    /\ decided.body.email # "" /\ decided.body.mailbox # ""
    /\ decided.body.email # decided.body.mailbox
    /\ email = decided.body.email

\* C7: no public entry point raises to its caller.
C7_NeverRaises == ~raised

\* C8 as stated: after a successful registration no later operation changes
\* self.email.
C8_ImmutableAfterRegistration ==
    [][(op = "register" /\ pc = "idle" /\ ret = TrueVal) => email' = email]_vars

\* C8, amended: self.email changes only in set_credentials or at the decision
\* of a register call that returns True.
C8_ChangedOnlyBySetOrRegister ==
    [][email' # email =>
          \/ pc = "idle" /\ op' = "set_credentials"
          \/ /\ op = "register" /\ pc = "return" /\ returned \in {200, 201}
             /\ pc' = "done" /\ ret' = TrueVal]_vars

\* A second successful registration has replaced the address.
C8_Witness ==
    /\ op = "register" /\ pc = "done" /\ ret = TrueVal
    /\ ~Falsy(email0) /\ email # email0

\* C9: in the sorted list every email with a parseable time stands before
\* every email without one, the times do not increase, and emails with equal
\* times or without time keep the order of the listing.
C9_NewestFirst ==
    \A a, b \in 1..Len(emails) :
        a < b =>
            LET ta == ParseEmailTime(emails[a])
                tb == ParseEmailTime(emails[b])
            IN  /\ ~(ta = NoInstant /\ tb # NoInstant)
                /\ (ta # NoInstant /\ tb # NoInstant) => ta >= tb
                /\ ta = tb => emails[a].pos < emails[b].pos

\* C10: with since_time given, no email without a parseable time and no email
\* older than since_time gets a detail request or reaches the extractor; an
\* email of exactly since_time is eligible; every skipped index is in exactly
\* one of the two skip lists.
C10_SinceFilter ==
    since_time # NoInstant =>
        /\ \A k \in 1..Len(examined) :
                TimeAtPos(examined[k]) # NoInstant /\ TimeAtPos(examined[k]) >= since_time
        /\ \A k \in 1..Len(detailed) :
                TimeAtPos(detailed[k]) # NoInstant /\ TimeAtPos(detailed[k]) >= since_time
        /\ \A k \in 1..Len(emails) :
                LET t == ParseEmailTime(emails[k])
                IN  /\ InSeq(k, skipped_no_time_indexes) <=> (k < idx /\ t = NoInstant)
                    /\ InSeq(k, skipped_expired_indexes) <=>
                            (k < idx /\ t # NoInstant /\ t < since_time)
        /\ \A a, b \in 1..Len(skipped_no_time_indexes) :
                skipped_no_time_indexes[a] = skipped_no_time_indexes[b] => a = b
        /\ \A a, b \in 1..Len(skipped_expired_indexes) :
                skipped_expired_indexes[a] = skipped_expired_indexes[b] => a = b

\* An email of exactly since_time got its detail request and was examined,
\* an older one was skipped.
C10_Witness ==
    /\ since_time # NoInstant
    /\ Len(skipped_expired_indexes) >= 1
    /\ \E k \in 1..Len(examined) : TimeAtPos(examined[k]) = since_time
    /\ \E k \in 1..Len(detailed) : TimeAtPos(detailed[k]) = since_time

\* The index in the sorted list of the email that stood at position p of the
\* listing.
IndexOfPos(p) == CHOOSE k \in 1..Len(emails) : emails[k].pos = p

\* lines 277-284: the email at index k of the sorted list passes the time
\* filter.
Eligible(k) ==
    \/ since_time = NoInstant
    \/ /\ ParseEmailTime(emails[k]) # NoInstant
       /\ ParseEmailTime(emails[k]) >= since_time

\* C11: fetch_verification_code examines the eligible emails newest first and
\* returns the code of the first one the extractor finds a code in, with no
\* detail request for a later email; it returns None only when every eligible
\* email has been examined without a code, or when there is no listing.
C11_FirstCodeElseAllExamined ==
    (op = "fetch" /\ pc = "done") =>
        /\ \A a \in 1..Len(examined) : Eligible(IndexOfPos(examined[a]))
        /\ \A a, b \in 1..Len(examined) :
                a < b => IndexOfPos(examined[a]) < IndexOfPos(examined[b])
        /\ ~Falsy(ret) =>
                /\ Len(examined) >= 1
                /\ IndexOfPos(examined[Len(examined)]) = idx
                /\ \A k \in 1..idx : Eligible(k) => InSeq(emails[k].pos, examined)
                /\ \A a \in 1..Len(detailed) : IndexOfPos(detailed[a]) <= idx
        /\ Falsy(ret) =>
                /\ ret = NoneVal
                /\ \A k \in 1..Len(emails) :
                        Eligible(k) => InSeq(emails[k].pos, examined)

\* C20: a failure on one email does not end the scan: an email whose detail
\* request was sent is examined, with the detail content or with its
\* listing-level fields, and when None is returned every eligible email of the
\* listing has been examined.
C20_ItemFailureDoesNotAbort ==
    (op = "fetch" /\ pc = "done" /\ Len(detailed) >= 1) =>
        /\ \A a \in 1..Len(detailed) : InSeq(detailed[a], examined)
        /\ Falsy(ret) =>
                \A k \in 1..Len(emails) :
                    Eligible(k) => InSeq(emails[k].pos, examined)

\* C12: _parse_email_time never raises, and returns None for every absent,
\* empty or unparseable value.
C12_ParseNeverThrows ==
    tp_pc = "parsed" =>
        /\ ~tp_raised
        /\ raw_time.kind \in {"none", "blank", "text", "other"} => parsed = NoParse

\* The seconds on the local wall clock that the epoch second s, given as a
\* pair, stands for.
LocalSeconds(s) ==
    LET l == s.lo + local_offset
    IN  IF l >= Giga THEN [hi |-> s.hi + 1, lo |-> l - Giga]
        ELSE IF l < 0 THEN [hi |-> s.hi - 1, lo |-> l + Giga]
        ELSE [hi |-> s.hi, lo |-> l]

\* n > 1e12, for n given as a pair.
Above1e12(n) == n.hi > 1000 \/ (n.hi = 1000 /\ n.lo > 0)

\* The whole seconds of n milliseconds: n div 1000.
WholeSeconds(n) ==
    [hi |-> n.hi \div 1000, lo |-> (n.hi % 1000) * 1000000 + n.lo \div 1000]

\* C13 as stated: a number or digit string above 1e12 parses to the instant
\* of the seconds value v div 1000, one not above 1e12 to the instant of v
\* seconds.
C13_MillisAsWholeSeconds ==
    (tp_pc = "parsed" /\ raw_time.kind \in {"int", "float", "digits"} /\ parsed.ok) =>
        /\ parsed.sec = LocalSeconds(IF Above1e12(raw_time.num)
                                     THEN WholeSeconds(raw_time.num)
                                     ELSE raw_time.num)
        /\ parsed.ms = 0

\* C13, amended: a number or digit string v above 1e12 is converted as
\* v / 1000 seconds, the milliseconds v mod 1000 kept as the fraction of the
\* second; one not above 1e12 as v seconds; a value whose seconds lie past
\* the last representable year makes the parser raise, whether it came as a
\* number or as a digit string.
C13_MillisKeepFraction ==
    (tp_pc = "parsed" /\ raw_time.kind \in {"int", "float", "digits"}) =>
        LET v == raw_time.num
            secs == IF Above1e12(v) THEN WholeSeconds(v) ELSE v
            frac == IF Above1e12(v) THEN v.lo % 1000 ELSE 0
            fits == /\ ~BigGt(secs, DatetimeMax)
                    /\ ~BigGt(LocalSeconds(secs), DatetimeMax)
        IN  /\ tp_raised <=> ~fits
            /\ parsed.ok <=> fits
            /\ fits => parsed.sec = LocalSeconds(secs) /\ parsed.ms = frac

\* 1700000000123 has been parsed: the second of 1700000000, 123 ms later.
C13_Witness ==
    /\ tp_pc = "parsed" /\ raw_time.kind \in {"int", "digits"}
    /\ Above1e12(raw_time.num) /\ raw_time.num = [hi |-> 1700, lo |-> 1]
    /\ parsed.ok /\ parsed.ms = 1
    /\ parsed.sec = LocalSeconds([hi |-> 1, lo |-> 700000000])

\* The parts of the last message, and among them the indexes of the data-URI
\* image parts and of the http(s) image parts.
LastParts == IF messages = <<>> THEN <<>> ELSE messages[Len(messages)].parts

DataPartIdx ==
    {j \in 1..Len(LastParts) :
        /\ LastParts[j].type = "image_url"
        /\ LastParts[j].url.scheme = "data:"
        /\ LastParts[j].url.mime # "" /\ LastParts[j].url.rest # ""}

HttpPartIdx ==
    {j \in 1..Len(LastParts) :
        /\ LastParts[j].type = "image_url"
        /\ LastParts[j].url.scheme \in {"http://", "https://"}}

\* The downloads that were answered with a payload.
FetchedIdx == {k \in 1..Len(tasks) : tasks[k].answer.status = 200}

\* How many elements of the set of indexes S are at most j.
RankIn(S, j) == Cardinality({x \in S : x <= j})

\* C14: whatever the order in which the downloads finish, and whichever of
\* them fail, the returned list is the data-URI attachments in content order,
\* then the attachment of every answered download in the order of the URLs in
\* the message, with nothing for a failed one.
C14_FailuresIsolated ==
    pm_pc = "returned" =>
        /\ Len(image_urls) = Cardinality(HttpPartIdx)
        /\ \A j \in HttpPartIdx : image_urls[RankIn(HttpPartIdx, j)] = LastParts[j].url
        /\ Len(images) = Cardinality(DataPartIdx) + Cardinality(FetchedIdx)
        /\ \A k \in 1..Len(images) : images[k].kind = "att"
        /\ \A j \in DataPartIdx :
                /\ images[RankIn(DataPartIdx, j)].mime = LastParts[j].url.mime
                /\ images[RankIn(DataPartIdx, j)].data = LastParts[j].url.rest
        /\ \A k \in FetchedIdx :
                images[Cardinality(DataPartIdx) + RankIn(FetchedIdx, k)] = tasks[k].result

\* A failed download ahead of an answered one that finished first, behind an
\* inline attachment.
C14_Witness ==
    /\ pm_pc = "returned" /\ out_of_order
    /\ Len(tasks) = 2
    /\ tasks[1].answer.status = 500 /\ tasks[2].answer.status = 200
    /\ Cardinality(DataPartIdx) = 1
    /\ Len(images) = 2 /\ images[2] = tasks[2].result

\* C15: parse_last_message returns only when every download has finished,
\* every queued URL got exactly one GET, and a step of one download writes
\* its own slot and nothing else.
C15_FanInWaitsForAll ==
    /\ [](pm_pc = "returned" =>
            /\ Len(tasks) = Len(image_urls)
            /\ \A k \in 1..Len(tasks) :
                    /\ tasks[k].st = "done" /\ tasks[k].sent = 1
                    /\ tasks[k].result.kind # "unset")
    /\ [][(pm_pc = "gather" /\ tasks' # tasks) =>
            /\ Len(tasks') = Len(tasks)
            /\ Cardinality({k \in 1..Len(tasks) : tasks'[k] # tasks[k]}) = 1
            /\ images' = images /\ image_urls' = image_urls
            /\ pm_pc' = pm_pc]_allVars

C15_Witness ==
    /\ pm_pc = "returned" /\ out_of_order
    /\ Len(tasks) >= 2
    /\ \A k \in 1..Len(tasks) : tasks[k].st = "done" /\ tasks[k].sent = 1

\* C16: a download yields None for 404, for any other status that is not a
\* success and for a transport exception, and never an exception; for a
\* success it yields the base64 of the body under the declared type up to
\* its first semicolon, application/octet-stream without a type.
C16_DownloadYieldsOptional ==
    \A k \in 1..Len(tasks) :
        tasks[k].st = "done" =>
            LET a == tasks[k].answer
                r == tasks[k].result
            IN  /\ r.kind \in {"none", "att"}
                /\ a.status # 200 => r.kind = "none"
                /\ a.status = 200 =>
                        /\ r.kind = "att"
                        /\ r.mime = (IF Len(a.ctype) = 0 THEN "application/octet-stream"
                                     ELSE a.ctype[1])
                        /\ a.body = "ABC" => r.data = "QUJD"
                        /\ a.body = "" => r.data = ""

\* One URL answered 404 and one answered 200: two slots, None and an
\* attachment.
C16_Witness ==
    /\ pm_pc = "returned" /\ Len(tasks) = 2
    /\ tasks[1].answer.status = 404 /\ tasks[1].result.kind = "none"
    /\ tasks[2].answer.status = 200 /\ tasks[2].result.kind = "att"
    /\ tasks[2].result.mime = "image/png" /\ tasks[2].result.data = "QUJD"

\* C17: GET requests go out for the http(s) image parts of the last message
\* only, one each; a data-URI part gives an inline attachment and no request;
\* parts of other shapes and the parts of earlier messages give neither.
C17_InlineWithoutNetwork ==
    /\ \A k \in 1..Len(tasks) : tasks[k].sent <= 1
    /\ Len(tasks) <= Cardinality(HttpPartIdx)
    /\ \A k \in 1..Len(tasks) :
            \E j \in HttpPartIdx : image_urls[k] = LastParts[j].url
    /\ pm_pc = "returned" =>
            /\ Cardinality({k \in 1..Len(tasks) : tasks[k].sent = 1})
                    = Cardinality(HttpPartIdx)
            /\ Len(images) <= Cardinality(DataPartIdx) + Cardinality(HttpPartIdx)
            /\ Len(images) >= Cardinality(DataPartIdx)

\* An earlier message with a remote image; in the last one a data URI, an
\* ftp URL and one http(s) URL: one GET.
C17_Witness ==
    /\ pm_pc = "returned" /\ Len(messages) = 2
    /\ Cardinality(DataPartIdx) = 1 /\ Cardinality(HttpPartIdx) = 1
    /\ \E j \in 1..Len(LastParts) : LastParts[j].url.scheme = "ftp://"
    /\ Len(tasks) = 1 /\ tasks[1].sent = 1
    /\ images[1] = [kind |-> "att", mime |-> "image/png", data |-> "QUJD"]

\* C18: for a non-empty message list the key is a hash; the same input gives
\* the same key, a change behind the third message leaves the key as it was,
\* and another client identifier with the same messages gives another key.
C18_KeyOfFirstThree ==
    (key_pc = "keyed" /\ key_messages # <<>>) =>
        /\ key.hashed
        /\ changed = "nothing" => key = prev_key
        /\ changed = "later" => key = prev_key
        /\ changed = "client" => key # prev_key

\* The fourth message was replaced under the same client, and the key
\* is the hash it was.
C18_Witness ==
    /\ key_pc = "keyed" /\ changed = "later" /\ Len(key_messages) = 4
    /\ key.hashed /\ key = prev_key
    /\ client_identifier = <<"c", "1">>
    /\ key.text = <<"c", "1", "|", "u", ":", "h", "i", "|", "s", ":", "y", "o",
                    "|", "u", ":", "h", "i">>

\* The role label the transcript is to show for a message.
LabelOf(msg) ==
    IF msg.role \in {"system"} THEN <<"System">>
    ELSE IF msg.role \in {"USER"} THEN <<"User">>
    ELSE IF msg.role = "tool"
         THEN <<"Tool[">> \o (IF msg.name = "" THEN <<"tool">> ELSE <<msg.name>>) \o <<"]">>
    ELSE IF msg.role \in {"Assistant", ""} THEN <<"Assistant">>
    ELSE <<msg.role>>

\* The image_url parts of a message.
ImageCount(msg) ==
    Cardinality({j \in 1..Len(msg.content.parts) :
                    msg.content.parts[j].type = "image_url"})

\* C19: the transcript is, message by message in the order of the list,
\* "<Role>: <content>" and an empty line, with Role System, User, Tool[name],
\* Assistant or the role as given; the content of a multimodal message ends
\* with exactly one image marker per image_url part; no download is started.
C19_Transcript ==
    ctx_pc = "built" =>
        /\ prompt = Join([k \in 1..Len(ctx_messages) |->
                            LabelOf(ctx_messages[k]) \o <<": ">>
                            \o ContentStr(ctx_messages[k]) \o <<"\n\n">>], <<>>)
        /\ \A k \in 1..Len(ctx_messages) :
                LET b == ContentStr(ctx_messages[k])
                    n == ImageCount(ctx_messages[k])
                IN  /\ Len(b) >= n
                    /\ \A j \in (Len(b) - n + 1)..Len(b) : b[j] = "[image]"
                    /\ Len(b) > n => b[Len(b) - n] # "[image]"
        /\ tasks = <<>> /\ nreq = 0

\* A tool result and a user message with two images have been rendered.
C19_Witness ==
    /\ ctx_pc = "built" /\ Len(ctx_messages) = 2
    /\ ctx_messages[1].role = "tool" /\ ctx_messages[1].name = "search"
    /\ ctx_messages[2].role = "USER"
    /\ prompt = <<"Tool[", "search", "]", ": ", "4", "2", "\n\n",
                  "User", ": ", "h", "i", "[image]", "[image]", "\n\n">>

\* The second s, given as a pair, moved by d seconds.
ShiftedBy(s, d) ==
    LET l == s.lo + d
    IN  IF l >= Giga THEN [hi |-> s.hi + 1, lo |-> l - Giga]
        ELSE IF l < 0 THEN [hi |-> s.hi - 1, lo |-> l + Giga]
        ELSE [hi |-> s.hi, lo |-> l]

\* s lies between 0001-01-01T00:00:00 and 9999-12-31T23:59:59.
Representable(s) ==
    /\ s.hi < 253 \/ (s.hi = 253 /\ s.lo <= 402300799)
    /\ s.hi > 0 - 63 \/ (s.hi = 0 - 63 /\ s.lo >= 864403200)

\* The UTC second an ISO string with a Z or an explicit offset names.
UtcOfAware(raw) ==
    ShiftedBy(raw.num, 0 - (IF raw.zone = "offset" THEN raw.off ELSE 0))

\* C21 as stated: an ISO string without timezone parses to the local instant
\* with the wall-clock fields as written, under every local offset; one with
\* Z or an offset is converted from that offset to the local wall clock.
C21_NaiveIsLocal ==
    (tp_pc = "parsed" /\ raw_time.kind = "iso") =>
        /\ raw_time.zone = "naive" =>
                parsed.ok /\ parsed.sec = raw_time.num /\ parsed.ms = 0
        /\ (raw_time.zone # "naive" /\ parsed.ok) =>
                parsed.sec = LocalSeconds(UtcOfAware(raw_time))

\* C21, amended: an ISO string without timezone is read as UTC, so it parses
\* to the same local instant as that string with a trailing Z: its wall
\* clock moved by the local offset; a string with Z or an offset is
\* converted from that offset to the local wall clock; the result is None,
\* without a raise, exactly when the UTC instant or the local one is outside
\* the years 1 to 9999.
C21_NaiveIsUtc ==
    (tp_pc = "parsed" /\ raw_time.kind = "iso") =>
        LET utc == IF raw_time.zone = "naive" THEN raw_time.num
                   ELSE UtcOfAware(raw_time)
            fits == Representable(utc) /\ Representable(LocalSeconds(utc))
        IN  /\ ~tp_raised
            /\ parsed.ok <=> fits
            /\ fits => parsed.sec = LocalSeconds(utc) /\ parsed.ms = 0

\* A string without timezone has been parsed one hour east of UTC: the
\* result is one hour later than the wall clock written.
C21_Witness ==
    /\ tp_pc = "parsed" /\ raw_time.kind = "iso" /\ raw_time.zone = "naive"
    /\ local_offset = 3600 /\ raw_time.num = [hi |-> 1, lo |-> 700000000]
    /\ parsed.ok /\ parsed.sec = [hi |-> 1, lo |-> 700003600]

\* C22: with the client identifier fixed, the key changes whenever the
\* first three messages are put in another order, and whenever fewer or more
\* of the first three messages are covered, whatever the roles and texts,
\* the separators ":" and "|" included.
C22_OrderAndTruncationSensitive ==
    key_pc = "keyed" =>
        /\ changed = "order" => key # prev_key
        /\ changed = "fewer" => key # prev_key
        /\ changed = "more" => key # prev_key

\* C23: while no address is set, fetch_verification_code returns None and
\* sends no request, and poll_for_code returns None after its
\* max(1, timeout div interval) attempts with no request sent; a code is
\* found only with an address set.
C23_NoPollingBeforeRegistration ==
    /\ (op \in {"fetch", "poll"} /\ pc # "idle" /\ Falsy(email0)) =>
            /\ pc \in {"attempt", "sleep", "done"}
            /\ call = NoCall /\ nreq = 0 /\ lastReq = NoReq
            /\ Falsy(code)
            /\ ~raised
            /\ pc = "done" =>
                    /\ ret = NoneVal
                    /\ op = "fetch" => attempts = 0
                    /\ (op = "poll" /\ interval > 0) =>
                            attempts = (IF timeout \div interval >= 1
                                        THEN timeout \div interval ELSE 1)
    /\ (op \in {"fetch", "poll"} /\ pc # "idle" /\ ~Falsy(code)) => ~Falsy(email)

====
